---- MODULE Spec2Model ----
(***************************************************************************)
(* github-file-authors (src/src/index.js): the authors of a path are the   *)
(* GitHub logins of the commits of its `git log`.  A run (getAuthors, or   *)
(* cacheFor over a list of paths) walks each path's log with one           *)
(* async.queue per path, looks every email up in the cache and resolves a  *)
(* miss through the shared setApiPromiseQueue / promiseForEmail pair.      *)
(*                                                                         *)
(* One action per macrotask or promise continuation of the code.  The      *)
(* model interleaves continuations more freely than one event loop does    *)
(* (a superset of the program's schedules).                                *)
(***************************************************************************)
EXTENDS Integers, Sequences, FiniteSets, TLC

(* ---------------------------------------------------------------- bounds *)
\* Commits of the repository, 1 (oldest) .. MaxCommit (newest).
MaxCommit == 3
\* Path names of the repository, and the longest `paths` list of cacheFor.
MaxPaths == 2
\* The largest value of the option `concurrency` that is tried.
MaxConcurrency == 2
\* Entries of a cache that is written to a file.
MaxEntries == 2

(* ----------------------------------------------------- the environment *)
Commits == 1..MaxCommit
PathNames == 1..MaxPaths
Emails == {"a@x", "b@x"}

\* %aE of a commit: commits alternate between the two committers.
EmailOf(c) == IF c % 2 = 1 THEN "a@x" ELSE "b@x"

\* .author.login of the GitHub API response for a commit, when it has one.
Login(c) == IF c % 3 = 1 THEN "alice" ELSE IF c % 3 = 2 THEN "bob" ELSE "carol"

\* Values of configs.repo: one that names a repository, and some that do not.
Repos ==
  { <<"o", "/", "n">>,
    <<>>, <<"o">>, <<"o", "/">>, <<"/", "n">>, <<"o", " ", "/", "n">>,
    <<"o", "/", "n", "/", "n">> }

\* Values of configs.onerror: left out, a function of the caller, and the
\* string 'undefined'.
OnErrors == {"unset", "function", "'undefined'"}

\* What a request for a commit can end in: a response with a login, a
\* response without one, or a rejected request.
Outcomes == {"ok", "nologin", "error"}

(* ------------------------------------------------------- JavaScript Map *)
\* A Map is the sequence of its [key, value] entries in insertion order.
MapKeys(m) == {m[k][1] : k \in 1..Len(m)}

MapHas(m, key) == \E k \in 1..Len(m) : m[k][1] = key

MapGet(m, key) == m[CHOOSE k \in 1..Len(m) : m[k][1] = key][2]

\* Map.prototype.set: an existing key keeps its place and takes the value.
MapSet(m, key, value) ==
  IF MapHas(m, key)
  THEN [k \in 1..Len(m) |-> IF m[k][1] = key THEN <<key, value>> ELSE m[k]]
  ELSE Append(m, <<key, value>>)

(* ---------------------------------------------------------------- state *)
VARIABLES
  runs,             \* API calls started so far
  phase,            \* "idle": no call in progress; "running": one is;
                    \* "rejected": the call's promise was rejected
  configs,          \* the configs object of the running (or last) call
  cache,            \* the Map `cache` of the running (or last) call
  cache0,           \* the entries `cache` had when the call started
  gitLog,           \* the repository: per path name, the commits of its log
  resolver,         \* the GitHub API: per commit, how a request for it ends
  pstate,           \* per entry of paths: where getAuthorsWith... stands
  lines,            \* per entry of paths: stdout.split('\n')
  wstate,           \* per entry of paths, per line: where its worker stands
  authors,          \* per entry of paths: the Set `authors`
  apiQueue,         \* the tasks waiting in setApiPromiseQueue
  promiseForEmail,  \* the Map promiseForEmail
  apiCalls,         \* per commit: axios.get calls made for it in this call
  errlog,           \* per commit: errorCallback invocations in this call
  stderr,           \* per commit: messages console.error wrote in this call
  prev,             \* what the previous call was given and what it returned
  file,             \* the cache file: its JSON text
  readBack          \* what readCache returned

vars == <<runs, phase, configs, cache, cache0, gitLog, resolver, pstate, lines,
          wstate, authors, apiQueue, promiseForEmail, apiCalls, errlog, stderr,
          prev, file, readBack>>

runVars == <<runs, phase, configs, cache, cache0, gitLog, resolver, pstate,
             lines, wstate, authors, apiQueue, promiseForEmail, apiCalls,
             errlog, stderr, prev>>

(* ------------------------------------------------------- the repository *)
RECURSIVE Descending(_)
\* The commits of a set, newest first, as `git log` prints them.
Descending(S) ==
  IF S = {} THEN <<>>
  ELSE LET c == CHOOSE x \in S : \A y \in S : y <= x
       IN <<c>> \o Descending(S \ {c})

\* The logs a path can have: any selection of the repository's commits.
Histories == {Descending(S) : S \in SUBSET Commits}

\* stdout of `git log --pretty='%H %aE'`, split at '\n' and each line at
\* ' ': one [sha, email] per commit, and the empty line after the last '\n'.
StdoutLines(log) ==
  [k \in 1..(Len(log) + 1) |->
     IF k <= Len(log) THEN <<log[k], EmailOf(log[k])>> ELSE <<"">>]

\* Caches a caller pre-seeds (the fake caches of test/test.js).
PreSeeds ==
  { << <<"a@x", "nauuo">> >>,
    << <<"b@x", "hwy">>, <<"a@x", "nauuo">> >> }

\* The `paths` lists of cacheFor: any list of path names, also an empty
\* one and one that names a path twice.
RECURSIVE SeqsUpTo(_, _)
SeqsUpTo(S, n) ==
  IF n = 0 THEN {<<>>}
  ELSE LET shorter == SeqsUpTo(S, n - 1)
       IN shorter \cup {Append(q, x) : q \in shorter, x \in S}

PathLists == SeqsUpTo(PathNames, MaxPaths)

\* What the configured onerror returns: nothing, or some truthy value that
\* is no API response.
CallbackReturns == {"undefined", "truthy"}

\* An email without an entry in promiseForEmail.
NoPromise == [state |-> "none", sha |-> 0, truthy |-> FALSE, hasLogin |-> FALSE, login |-> ""]

NoRun == [api |-> "none", paths |-> <<>>, authors |-> <<>>, cache |-> <<>>,
          resolved |-> {}]

(* ------------------------------------------------------- initial state *)
\* The module is loaded, nothing has been called: the caller holds an empty
\* Map, the repository and the API are there to be asked.
Init ==
  /\ runs = 0
  /\ phase = "idle"
  /\ configs = [api |-> "none", repo |-> <<>>, paths |-> <<>>, cache |-> <<>>,
                concurrency |-> 1, onerror |-> "unset"]
  /\ cache = <<>>
  /\ cache0 = <<>>
  /\ gitLog = [n \in PathNames |-> [exists |-> "unknown", known |-> FALSE,
                                     fails |-> FALSE, log |-> <<>>]]
  /\ resolver = [c \in Commits |-> "unknown"]
  /\ pstate = <<>>
  /\ lines = <<>>
  /\ wstate = <<>>
  /\ authors = <<>>
  /\ apiQueue = <<>>
  /\ promiseForEmail = [e \in Emails |-> NoPromise]
  /\ apiCalls = [c \in Commits |-> 0]
  /\ errlog = [c \in Commits |-> 0]
  /\ stderr = [c \in Commits |-> 0]
  /\ prev = NoRun
  /\ file = [written |-> FALSE, text |-> <<>>]
  /\ readBack = [read |-> FALSE, error |-> FALSE, map |-> <<>>]

(* ------------------------------------------------------------ the calls *)
\* What the call that ended is remembered by when the next one starts.
LastRun == [api |-> configs.api, paths |-> configs.paths,
            authors |-> authors, cache |-> cache,
            resolved |-> {e \in Emails : /\ promiseForEmail[e].state = "settled"
                                         /\ promiseForEmail[e].hasLogin}]

\* The Maps a caller passes as configs.cache: the Map the last call left
\* behind (an empty one before the first call), a new Map, a pre-seeded one.
CacheArgs == {cache, <<>>} \cup PreSeeds

\* The characters of [A-Za-z0-9_.-] that the values of Repos are made of.
SlugChars == {"o", "n", "-", ".", "_"}

IsSlug(str) == Len(str) >= 1 /\ \A k \in 1..Len(str) : str[k] \in SlugChars

\* Variant: any value of repo is taken.
checkRepoUnchecked(repo) == TRUE

\* /^[A-Za-z0-9_.-]+\/[A-Za-z0-9_.-]+$/.test(repo): whether the assert of
\* checkRepo passes.
checkRepo(repo) ==
  \E k \in 1..Len(repo) :
    /\ repo[k] = "/"
    /\ IsSlug(SubSeq(repo, 1, k - 1))
    /\ IsSlug(SubSeq(repo, k + 1, Len(repo)))

\* getErrorCallback(onerror): defaultOnError for the string 'undefined',
\* onerror itself when it is a function, `() => {}` for anything else.
getErrorCallback(onerror) ==
  IF onerror = "'undefined'" THEN "defaultOnError"
  ELSE IF onerror = "function" THEN "onerror"
  ELSE "noop"

\* createSetApiPromiseQueue, and the state every call starts from: a new
\* promiseForEmail and setApiPromiseQueue, one
\* getAuthorsWithSetApiPromiseQueue per entry of paths, each at its
\* `await fs.lstat`. When the assert of checkRepo throws, the call's
\* promise is rejected and nothing of this has happened.
StartRun(cfg, map) ==
  /\ phase = "idle"
  /\ runs' = runs + 1
  /\ prev' = IF runs = 0 THEN NoRun ELSE LastRun
  /\ configs' = cfg
  /\ cache' = map
  /\ cache0' = map
  /\ promiseForEmail' = [e \in Emails |-> NoPromise]
  /\ apiQueue' = <<>>
  /\ apiCalls' = [c \in Commits |-> 0]
  /\ errlog' = [c \in Commits |-> 0]
  /\ stderr' = [c \in Commits |-> 0]
  /\ IF checkRepo(cfg.repo)
     THEN /\ phase' = "running"
          /\ pstate' = [i \in 1..Len(cfg.paths) |-> "lstat"]
          /\ lines' = [i \in 1..Len(cfg.paths) |-> <<>>]
          /\ wstate' = [i \in 1..Len(cfg.paths) |-> <<>>]
          /\ authors' = [i \in 1..Len(cfg.paths) |-> {}]
     ELSE /\ phase' = "rejected"
          /\ pstate' = <<>>
          /\ lines' = <<>>
          /\ wstate' = <<>>
          /\ authors' = <<>>
  /\ UNCHANGED <<gitLog, resolver, file, readBack>>

\* Variant: getAuthors starts from a new Map whatever configs.cache holds.
RunCacheFresh(cfg) == <<>>

\* getAuthors(configs): one path, the cache of configs (a new Map without).
RunCacheOfGetAuthors(cfg) == cfg.cache

getAuthors(repo, filePath, map, n, onerror) ==
  LET cfg == [api |-> "getAuthors", repo |-> repo, paths |-> <<filePath>>,
              cache |-> map, concurrency |-> n, onerror |-> onerror]
  IN StartRun(cfg, RunCacheOfGetAuthors(cfg))

\* cacheFor(configs): `const cache = new Map()`, and { ...configs, filePath,
\* cache } passes that Map on whatever configs.cache holds.
RunCacheOfCacheFor(cfg) == <<>>

cacheFor(repo, paths, map, n, onerror) ==
  LET cfg == [api |-> "cacheFor", repo |-> repo, paths |-> paths, cache |-> map,
              concurrency |-> n, onerror |-> onerror]
  IN StartRun(cfg, RunCacheOfCacheFor(cfg))

(* ------------------------------------- getAuthorsWithSetApiPromiseQueue *)
\* The getAuthorsWithSetApiPromiseQueue invocations of the call.
PathIndex == 1..Len(pstate)

\* The call has started work that is not over; the caller may have its
\* rejection already.
Working == phase \in {"running", "rejected"}

\* Variant: a worker that has returned keeps its place in the queue.
numRunningNeverFreed(i) ==
  Cardinality({j \in 1..Len(wstate[i]) : wstate[i][j] /= "queued"})

\* Workers of the path's queue that were started and have not returned.
numRunning(i) ==
  Cardinality({j \in 1..Len(wstate[i]) : wstate[i][j] \in {"pushing", "awaiting"}})

\* Variant: the queue starts the task pushed last (unshift for push).
NextTaskLifo(i, j) ==
  /\ wstate[i][j] = "queued"
  /\ \A k \in (j + 1)..Len(wstate[i]) : wstate[i][k] /= "queued"

\* The queue is FIFO: the task it starts next is the first still waiting.
NextTask(i, j) ==
  /\ wstate[i][j] = "queued"
  /\ \A k \in 1..(j - 1) : wstate[i][k] /= "queued"

\* The path's queue has a free worker for line j (async.queue's process()).
CanStart(i, j) ==
  /\ pstate[i] = "queue"
  /\ NextTask(i, j)
  /\ numRunning(i) < configs.concurrency

\* Line j's worker awaits a promise that is settled, or awaits the
\* `undefined` that promiseForEmail.get returns for an email without entry.
CanResume(i, j) ==
  /\ pstate[i] = "queue"
  /\ wstate[i][j] = "awaiting"
  /\ promiseForEmail[lines[i][j][2]].state \in {"settled", "none"}

\* Every push of the path has resolved.
CanReturn(i) ==
  /\ pstate[i] = "queue"
  /\ \A j \in 1..Len(wstate[i]) : wstate[i][j] = "done"

\* Continuations of one settled promise run before anything they make
\* runnable. They commute (the same login into the same cache entry, one
\* Set per path), so they are taken in line order.
ResumePending == \E i \in PathIndex : \E j \in 1..Len(wstate[i]) : CanResume(i, j)

FirstToResume(i, j) ==
  /\ CanResume(i, j)
  /\ \A k \in 1..(i - 1) : \A l \in 1..Len(wstate[k]) : ~CanResume(k, l)
  /\ \A l \in 1..(j - 1) : ~CanResume(i, l)

\* The event loop runs a callback and all promise continuations it makes
\* runnable before it takes the next event: while a worker can go on, a
\* queue can start a task or a function can return, no `git log` and no
\* request completes and setApiPromiseQueue's setImmediate does not fire.
MicrotasksPending ==
  \/ \E i \in PathIndex : \E j \in 1..Len(wstate[i]) :
        CanStart(i, j) \/ CanResume(i, j)
  \/ \E i \in PathIndex : CanReturn(i)
  \/ phase = "running" /\ \A i \in PathIndex : pstate[i] = "returned"

\* Variant: the rejection of a path is swallowed, the caller hears nothing.
AfterRejectionSwallowed(ph) == ph

\* A getAuthorsWithSetApiPromiseQueue promise is rejected: getAuthors
\* returns that very promise, and the Promise.all of cacheFor is rejected
\* with its first rejected element, so the `await` in cacheFor throws. The
\* call's promise is rejected, if it was not already.
AfterRejection(ph) == "rejected"

\* `await fs.lstat(absPath)` ends: the path is there and `git log` is
\* started for it, or lstat is rejected (ENOENT) and with it the function.
lstatDone(i) ==
  /\ Working
  /\ pstate[i] = "lstat"
  /\ ~MicrotasksPending
  /\ LET name == configs.paths[i] IN
     \E there \in {"yes", "no"} :
       /\ gitLog[name].exists \in {"unknown", there}
       /\ gitLog' = [gitLog EXCEPT ![name].exists = there]
       /\ pstate' = [pstate EXCEPT ![i] = IF there = "yes" THEN "git" ELSE "failed"]
       /\ phase' = IF there = "yes" THEN phase ELSE AfterRejection(phase)
  /\ UNCHANGED <<runs, configs, cache, cache0, resolver, lines, wstate, authors,
                 apiQueue, promiseForEmail, apiCalls, errlog, stderr, prev,
                 file, readBack>>

\* What `git log` of a path ends in: a failure of the command, or a log.
GitOutcomes ==
  {[fails |-> TRUE, log |-> <<>>]} \cup {[fails |-> FALSE, log |-> h] : h \in Histories}

\* `await exec(git log ...)` ends. When it returns, the lines are split and
\* every line is pushed on the path's own queue; when the command fails
\* the function is rejected.
gitLogDone(i) ==
  /\ Working
  /\ pstate[i] = "git"
  /\ ~MicrotasksPending
  /\ LET name == configs.paths[i] IN
     \E r \in GitOutcomes :
       /\ gitLog[name].known => (r.fails = gitLog[name].fails /\ r.log = gitLog[name].log)
       /\ gitLog' = [gitLog EXCEPT ![name].known = TRUE, ![name].fails = r.fails,
                                   ![name].log = r.log]
       /\ lines' = [lines EXCEPT ![i] = IF r.fails THEN <<>> ELSE StdoutLines(r.log)]
       /\ wstate' = [wstate EXCEPT ![i] =
                       IF r.fails THEN <<>>
                       ELSE [k \in 1..(Len(r.log) + 1) |-> "queued"]]
       /\ pstate' = [pstate EXCEPT ![i] = IF r.fails THEN "failed" ELSE "queue"]
       /\ phase' = IF r.fails THEN AfterRejection(phase) ELSE phase
  /\ UNCHANGED <<runs, configs, cache, cache0, resolver, authors,
                 apiQueue, promiseForEmail, apiCalls, errlog, stderr,
                 prev, file, readBack>>

\* Variant: the worker asks the API without looking into the cache.
CacheHitNever(map, email) == FALSE

\* `if (cache.has(email))`
CacheHit(map, email) == MapHas(map, email)

\* Variant: a cache hit returns without adding to authors.
AddCachedDropped(set, map, email) == set

\* `authors.add(cache.get(email))`
AddCached(set, map, email) == set \cup {MapGet(map, email)}

\* The worker of a line, up to its first await (lines 113-120): a line that
\* is no "sha email" pair and a cache hit return at once, a miss pushes
\* { email, sha } on setApiPromiseQueue and waits.
queueWorker(i, j) ==
  /\ Working
  /\ CanStart(i, j)
  /\ ~ResumePending
  /\ LET parts == lines[i][j] IN
     IF Len(parts) /= 2
     THEN /\ wstate' = [wstate EXCEPT ![i][j] = "done"]
          /\ UNCHANGED <<authors, apiQueue>>
     ELSE IF CacheHit(cache, parts[2])
     THEN /\ authors' = [authors EXCEPT ![i] = AddCached(@, cache, parts[2])]
          /\ wstate' = [wstate EXCEPT ![i][j] = "done"]
          /\ UNCHANGED apiQueue
     ELSE /\ apiQueue' = Append(apiQueue, [email |-> parts[2], sha |-> parts[1],
                                           path |-> i, line |-> j])
          /\ wstate' = [wstate EXCEPT ![i][j] = "pushing"]
          /\ UNCHANGED authors
  /\ UNCHANGED <<runs, phase, configs, cache, cache0, gitLog, resolver, pstate,
                 lines, promiseForEmail, apiCalls, errlog, stderr,
                 prev, file, readBack>>

(* -------------------------------------------------- setApiPromiseQueue *)
\* `promiseForEmail.has(email)`
PromiseHas(pfe, email) == pfe[email].state /= "none"

\* Variant: the task sends its request without looking at promiseForEmail.
SendsRequestUnchecked(pfe, email) == TRUE

\* `if (!promiseForEmail.has(email))`: whether the task sends a request.
SendsRequest(pfe, email) == ~PromiseHas(pfe, email)

\* Variant: the task that was pushed last is taken first.
LastPushed(q) == Len(q)

\* async.queue takes its tasks in the order they were pushed.
FirstPushed(q) == 1

\* The queue without its k-th task.
Without(q, k) == [x \in 1..(Len(q) - 1) |-> IF x < k THEN q[x] ELSE q[x + 1]]

\* The worker of setApiPromiseQueue (concurrency 1, lines 73-84) on the
\* first waiting task: without an entry for the email it calls axios.get
\* for the task's sha and stores the promise; it awaits nothing, so the
\* push of the line's worker resolves, and that worker goes on to
\* `await promiseForEmail.get(email)`.
setApiPromiseQueueWorker ==
  /\ Working
  /\ apiQueue /= <<>>
  /\ ~MicrotasksPending
  /\ LET task == apiQueue[FirstPushed(apiQueue)]
         send == SendsRequest(promiseForEmail, task.email)
     IN /\ promiseForEmail' =
             IF send
             THEN [promiseForEmail EXCEPT ![task.email] =
                     [NoPromise EXCEPT !.state = "pending", !.sha = task.sha]]
             ELSE promiseForEmail
        /\ apiCalls' = IF send THEN [apiCalls EXCEPT ![task.sha] = @ + 1]
                       ELSE apiCalls
        /\ wstate' = [wstate EXCEPT ![task.path][task.line] = "awaiting"]
  /\ apiQueue' = Without(apiQueue, FirstPushed(apiQueue))
  /\ UNCHANGED <<runs, phase, configs, cache, cache0, gitLog, resolver, pstate,
                 lines, authors, errlog, stderr,
                 prev, file, readBack>>

\* What the stored promise resolves to (lines 77-82): the response, or,
\* when the request fails, whatever errorCallback returned to .catch.
Settled(p, outcome, onerrorReturns) ==
  [p EXCEPT !.state = "settled",
            !.truthy = IF outcome = "error" THEN onerrorReturns = "truthy" ELSE TRUE,
            !.hasLogin = (outcome = "ok"),
            !.login = IF outcome = "ok" THEN Login(p.sha) ELSE ""]

\* What a call of errorCallback can return: a function of the caller
\* anything, defaultOnError and `() => {}` undefined.
ReturnsOf(onerror) ==
  IF getErrorCallback(onerror) = "onerror" THEN CallbackReturns ELSE {"undefined"}

\* errorCallback(sha, ...) on the standard error stream: defaultOnError
\* writes one message, the other callbacks none of their own.
ConsoleError(log, onerror, sha) ==
  IF getErrorCallback(onerror) = "defaultOnError"
  THEN [log EXCEPT ![sha] = @ + 1] ELSE log

\* The request for an email ends, as the API answers for its commit; a
\* failed request is reported by .catch with the sha that was sent, and the
\* promise resolves to what that call of errorCallback returns.
requestSettles(email) ==
  /\ Working
  /\ promiseForEmail[email].state = "pending"
  /\ ~MicrotasksPending
  /\ LET sha == promiseForEmail[email].sha IN
     \E outcome \in Outcomes, ret \in ReturnsOf(configs.onerror) :
       /\ resolver[sha] \in {"unknown", outcome}
       /\ outcome /= "error" => ret = "undefined"
       /\ resolver' = [resolver EXCEPT ![sha] = outcome]
       /\ promiseForEmail' = [promiseForEmail EXCEPT ![email] =
                                Settled(@, outcome, ret)]
       /\ errlog' = IF outcome = "error" THEN [errlog EXCEPT ![sha] = @ + 1]
                    ELSE errlog
       /\ stderr' = IF outcome = "error"
                    THEN ConsoleError(stderr, configs.onerror, sha) ELSE stderr
  /\ UNCHANGED <<runs, phase, configs, cache, cache0, gitLog, pstate, lines,
                 wstate, authors, apiQueue, apiCalls, prev, file, readBack>>

\* Variant: the login goes to authors and the cache is left as it is.
CacheNotSet(map, email, login) == map

\* Variant: the cache is replaced by a Map that holds the new entry alone.
CacheReplaced(map, email, login) == << <<email, login>> >>

\* `cache.set(email, login)`
CacheAfterLogin(map, email, login) == MapSet(map, email, login)

\* `authors.add(login)`
AddLogin(set, login) == set \cup {login}

\* Variant: any response counts, with or without a login in it.
GotLoginUntyped(p) == p.truthy

\* `response` is there and `typeof login === 'string'` (lines 122-124).
GotLogin(p) == p.truthy /\ p.hasLogin

\* Variant: a response without a login is passed over in silence.
ReportsNever(p) == FALSE

\* Whether the worker reports the line: the response is there and has no
\* string at .data.author.login (line 127).
ReportsNoLogin(p) == p.truthy /\ ~p.hasLogin

\* The worker of a line after `await promiseForEmail.get(email)` (lines
\* 121-127): nothing without a response, the login into cache and authors,
\* or errorCallback with the line's own sha.
workerResumes(i, j) ==
  /\ Working
  /\ FirstToResume(i, j)
  /\ LET sha == lines[i][j][1]
         email == lines[i][j][2]
         p == promiseForEmail[email]
     IN /\ cache' = IF GotLogin(p)
                    THEN CacheAfterLogin(cache, email, p.login) ELSE cache
        /\ authors' = IF GotLogin(p)
                      THEN [authors EXCEPT ![i] = AddLogin(@, p.login)]
                      ELSE authors
        /\ errlog' = IF ReportsNoLogin(p) THEN [errlog EXCEPT ![sha] = @ + 1]
                     ELSE errlog
        /\ stderr' = IF ReportsNoLogin(p)
                     THEN ConsoleError(stderr, configs.onerror, sha) ELSE stderr
  /\ wstate' = [wstate EXCEPT ![i][j] = "done"]
  /\ UNCHANGED <<runs, phase, configs, cache0, gitLog, resolver, pstate, lines,
                 apiQueue, promiseForEmail, apiCalls, prev, file, readBack>>

\* `await Promise.all(...)` of a path is over: Array.from(authors) returns.
pathReturns(i) ==
  /\ Working
  /\ CanReturn(i)
  /\ ~ResumePending
  /\ pstate' = [pstate EXCEPT ![i] = "returned"]
  /\ UNCHANGED <<runs, phase, configs, cache, cache0, gitLog, resolver, lines,
                 wstate, authors, apiQueue, promiseForEmail, apiCalls, errlog, stderr,
                 prev, file, readBack>>

\* The call returns: getAuthors the authors of its path, cacheFor the cache
\* once the Promise.all over paths is through.
runReturns ==
  /\ phase = "running"
  /\ \A i \in PathIndex : pstate[i] = "returned"
  /\ phase' = "idle"
  /\ UNCHANGED <<runs, configs, cache, cache0, gitLog, resolver, pstate, lines,
                 wstate, authors, apiQueue, promiseForEmail, apiCalls, errlog, stderr,
                 prev, file, readBack>>

(* ------------------------------------------------------ specifications *)
\* Everything that happens between a call and its return.
Pipeline ==
  \/ \E i \in PathIndex : lstatDone(i)
  \/ \E i \in PathIndex : gitLogDone(i)
  \/ \E i \in PathIndex : \E j \in 1..Len(wstate[i]) : queueWorker(i, j)
  \/ setApiPromiseQueueWorker
  \/ \E email \in Emails : requestSettles(email)
  \/ \E i \in PathIndex : \E j \in 1..Len(wstate[i]) : workerResumes(i, j)
  \/ \E i \in PathIndex : pathReturns(i)
  \/ runReturns

\* The caller makes one call, with any configs.
Call ==
  /\ runs = 0
  /\ \E repo \in Repos, map \in CacheArgs, n \in 1..MaxConcurrency,
        onerror \in OnErrors :
       \/ \E filePath \in PathNames : getAuthors(repo, filePath, map, n, onerror)
       \/ \E paths \in PathLists : cacheFor(repo, paths, map, n, onerror)

Next == Call \/ Pipeline

Spec == Init /\ [][Next]_vars

\* The caller repeats a call that has returned: the same paths, the
\* repository and the API as they were, and as configs.cache the Map the
\* first call left behind.
CallAgain ==
  /\ runs = 1
  /\ \E n \in 1..MaxConcurrency :
       \/ /\ Len(configs.paths) = 1
          /\ getAuthors(configs.repo, configs.paths[1], cache, n, configs.onerror)
       \/ cacheFor(configs.repo, configs.paths, cache, n, configs.onerror)

NextTwice == Call \/ CallAgain \/ Pipeline

SpecTwice == Init /\ [][NextTwice]_vars

\* The caches given to the calls whose termination is checked.
LiveCacheArgs == {<<>>, << <<"a@x", "nauuo">> >>}

\* One call with a repo that is taken and a callback of the caller: any
\* paths, any logs, any concurrency, any answers of the API.
CallLive ==
  /\ runs = 0
  /\ \E n \in 1..MaxConcurrency :
       \/ \E filePath \in PathNames, map \in LiveCacheArgs :
            getAuthors(<<"o", "/", "n">>, filePath, map, n, "function")
       \/ \E paths \in PathLists :
            cacheFor(<<"o", "/", "n">>, paths, <<>>, n, "function")

NextLive == CallLive \/ Pipeline

\* The event loop runs every callback that is ready, and every lstat,
\* `git log` and request ends: a step of the call that can be taken is
\* taken.
SpecLive == Init /\ [][NextLive]_vars /\ WF_vars(Pipeline)

(* ------------------------------------------------ readCache, writeCache *)
\* In this part a string is the sequence of its characters, and so is the
\* text of the cache file.
SampleStrings ==
  { <<>>, <<"a">>, <<"\"">>, <<"\\">>, <<"]", ",">> }

RECURSIVE Flatten(_)
Flatten(parts) == IF parts = <<>> THEN <<>> ELSE Head(parts) \o Flatten(Tail(parts))

\* Variant: a character is written as it is.
EscapeCharRaw(c) == <<c>>

\* JSON.stringify of one character of a string: '"' and '\' get a '\'.
EscapeChar(c) == IF c \in {"\"", "\\"} THEN <<"\\", c>> ELSE <<c>>

\* JSON.stringify of a string.
Quote(str) ==
  <<"\"">> \o Flatten([k \in 1..Len(str) |-> EscapeChar(str[k])]) \o <<"\"">>

\* JSON.stringify([...cache]): the entries as an array of 2-element arrays.
JSONStringify(map) ==
  <<"[">>
  \o Flatten([k \in 1..Len(map) |->
        (IF k = 1 THEN <<>> ELSE <<",">>)
        \o <<"[">> \o Quote(map[k][1]) \o <<",">> \o Quote(map[k][2]) \o <<"]">>])
  \o <<"]">>

ParseError == [ok |-> FALSE, value |-> <<>>, next |-> 0]

At(text, i) == IF i <= Len(text) THEN text[i] ELSE "EOF"

RECURSIVE ReadString(_, _, _)
\* JSON.parse inside a string literal, after its opening '"'.
ReadString(text, i, acc) ==
  LET c == At(text, i) IN
  IF c = "EOF" THEN ParseError
  ELSE IF c = "\"" THEN [ok |-> TRUE, value |-> acc, next |-> i + 1]
  ELSE IF c = "\\"
       THEN IF At(text, i + 1) \in {"\"", "\\"}
            THEN ReadString(text, i + 2, Append(acc, At(text, i + 1)))
            ELSE ParseError
  ELSE ReadString(text, i + 1, Append(acc, c))

ParseString(text, i) ==
  IF At(text, i) = "\"" THEN ReadString(text, i + 1, <<>>) ELSE ParseError

\* JSON.parse of one ["...","..."].
ParsePair(text, i) ==
  IF At(text, i) /= "[" THEN ParseError
  ELSE LET k == ParseString(text, i + 1) IN
       IF ~k.ok \/ At(text, k.next) /= "," THEN ParseError
       ELSE LET v == ParseString(text, k.next + 1) IN
            IF ~v.ok \/ At(text, v.next) /= "]" THEN ParseError
            ELSE [ok |-> TRUE, value |-> <<k.value, v.value>>, next |-> v.next + 1]

RECURSIVE ParsePairs(_, _, _)
\* JSON.parse of the elements of the outer array, up to its ']'.
ParsePairs(text, i, acc) ==
  LET e == ParsePair(text, i) IN
  IF ~e.ok THEN ParseError
  ELSE IF At(text, e.next) = ","
       THEN ParsePairs(text, e.next + 1, Append(acc, e.value))
  ELSE IF At(text, e.next) = "]"
       THEN [ok |-> TRUE, value |-> Append(acc, e.value), next |-> e.next + 1]
  ELSE ParseError

\* JSON.parse(file.toString()) of a text that holds an array of pairs of
\* strings; any other text is an error here.
JSONParse(text) ==
  IF At(text, 1) /= "[" THEN ParseError
  ELSE LET r == IF At(text, 2) = "]"
                THEN [ok |-> TRUE, value |-> <<>>, next |-> 3]
                ELSE ParsePairs(text, 2, <<>>)
       IN IF r.ok /\ r.next = Len(text) + 1 THEN r ELSE ParseError

RECURSIVE NewMap(_)
\* new Map(entries): the entries are set one after the other.
NewMap(entries) ==
  IF entries = <<>> THEN <<>>
  ELSE LET last == entries[Len(entries)]
       IN MapSet(NewMap(SubSeq(entries, 1, Len(entries) - 1)), last[1], last[2])

\* The caller fills the Map it is going to write.
cacheSet(email, handle) ==
  /\ ~file.written
  /\ MapHas(cache, email) \/ Len(cache) < MaxEntries
  /\ cache' = MapSet(cache, email, handle)
  /\ UNCHANGED <<runs, phase, configs, cache0, gitLog, resolver, pstate, lines,
                 wstate, authors, apiQueue, promiseForEmail, apiCalls, errlog, stderr,
                 prev, file, readBack>>

\* writeCache(cache, cachePath) with a path that can be written.
writeCache ==
  /\ ~file.written
  /\ file' = [written |-> TRUE, text |-> JSONStringify(cache)]
  /\ UNCHANGED <<runVars, readBack>>

\* readCache(cachePath) of the file that was written: the Map, or the
\* error that JSON.parse throws.
readCache ==
  /\ file.written
  /\ ~readBack.read
  /\ LET r == JSONParse(file.text)
     IN readBack' = [read |-> TRUE, error |-> ~r.ok,
                     map |-> IF r.ok THEN NewMap(r.value) ELSE <<>>]
  /\ UNCHANGED <<runVars, file>>

NextPersist ==
  \/ \E email \in SampleStrings, handle \in SampleStrings : cacheSet(email, handle)
  \/ writeCache
  \/ readCache

\* A caller that builds a cache, writes it and reads the file back.
SpecPersist == Init /\ [][NextPersist]_vars

(* ------------------------------------------------------------- claims *)
\* The call has returned to its caller.
Returned == phase = "idle" /\ runs >= 1

RECURSIVE SumOver(_, _)
SumOver(f, S) ==
  IF S = {} THEN 0
  ELSE LET c == CHOOSE x \in S : TRUE IN f[c] + SumOver(f, S \ {c})

\* axios.get calls of the running call for commits of an email.
CallsFor(email) == SumOver(apiCalls, {c \in Commits : EmailOf(c) = email})

\* The lines of a path that are "sha email" records.
Records(i) == {j \in 1..Len(lines[i]) : Len(lines[i][j]) = 2}

EmailsOfPath(i) == {lines[i][j][2] : j \in Records(i)}

\* The sha of the first record of an email in a path's log.
FirstSha(i, email) ==
  lines[i][CHOOSE j \in Records(i) :
             /\ lines[i][j][2] = email
             /\ \A k \in Records(i) : lines[i][k][2] = email => j <= k][1]

\* The resolution of an email failed: the request was rejected or the
\* response had no login.
Failed(email) ==
  /\ promiseForEmail[email].state = "settled"
  /\ ~promiseForEmail[email].hasLogin

Resolved(email) ==
  /\ promiseForEmail[email].state = "settled"
  /\ promiseForEmail[email].hasLogin

\* C1: in one call, at most one request is sent per email, whatever the
\* number of commits and paths with that email and however their workers
\* interleave, also once the email's resolution has failed.
C1_OneRequestPerEmail == \A e \in Emails : CallsFor(e) <= 1

\* With one worker at a time, a later line of a failed email has been
\* through setApiPromiseQueue after the failure, and there was one request.
C1_Witness ==
  /\ configs.concurrency = 1
  /\ \E i \in PathIndex : \E j, k \in Records(i) :
       /\ j < k
       /\ lines[i][j][2] = lines[i][k][2]
       /\ wstate[i][j] = "done"
       /\ wstate[i][k] = "awaiting"
       /\ Failed(lines[i][k][2])
       /\ CallsFor(lines[i][k][2]) = 1

\* C2 as stated: for every email of the cache given in configs, of
\* getAuthors or of cacheFor, no request is sent.
C2_Original == \A e \in MapKeys(configs.cache) : CallsFor(e) = 0

\* A handle of path i that the cache given in configs accounts for, or a
\* login of a commit of the path whose email that cache does not hold.
FromSuppliedOrOthers(i, h) ==
  \/ \E e \in EmailsOfPath(i) \cap MapKeys(configs.cache) : h = MapGet(configs.cache, e)
  \/ \E j \in Records(i) :
       /\ lines[i][j][2] \notin MapKeys(configs.cache)
       /\ h = Login(lines[i][j][1])

\* C2: in getAuthors, the cache wins. For every email of configs.cache no
\* request is sent, its entry keeps the handle it came with, every line
\* with that email puts that handle into authors, and nothing else comes
\* into authors on its behalf.
C2_CacheWinsInGetAuthors ==
  configs.api = "getAuthors" =>
    /\ \A e \in MapKeys(configs.cache) :
         /\ CallsFor(e) = 0
         /\ MapHas(cache, e) /\ MapGet(cache, e) = MapGet(configs.cache, e)
         /\ \A i \in PathIndex : \A j \in Records(i) :
              (lines[i][j][2] = e /\ wstate[i][j] = "done")
                => MapGet(configs.cache, e) \in authors[i]
    /\ \A i \in PathIndex : \A h \in authors[i] : FromSuppliedOrOthers(i, h)

\* test/test1 follow with fake cache: one email comes from the cache, the
\* other from the API.
C2_Witness ==
  /\ Returned
  /\ configs.api = "getAuthors"
  /\ configs.cache = << <<"a@x", "nauuo">> >>
  /\ {"a@x", "b@x"} \subseteq EmailsOfPath(1)
  /\ Resolved("b@x")
  /\ authors[1] = {"nauuo", promiseForEmail["b@x"].login}

\* What an email contributes to the authors of a path, if anything: the
\* handle the cache had at the start, else the login of its response.
HasHandle(e) == MapHas(cache0, e) \/ Resolved(e)

HandleOf(e) ==
  IF MapHas(cache0, e) THEN MapGet(cache0, e) ELSE promiseForEmail[e].login

C4_Original ==
  /\ \A c \in Commits : errlog[c] <= 1
  /\ Returned =>
       \A e \in Emails : Failed(e) => errlog[promiseForEmail[e].sha] = 1

\* C5: one path, an empty cache, no failing request. The authors are the
\* logins of the first record of each email of the log, and the cache
\* holds exactly these emails, each with that login.
C5_FirstRecordDecides ==
  ( /\ Returned
    /\ Len(configs.paths) = 1
    /\ cache0 = <<>>
    /\ \A c \in Commits : resolver[c] \in {"unknown", "ok"} )
  => /\ authors[1] = {Login(FirstSha(1, e)) : e \in EmailsOfPath(1)}
     /\ MapKeys(cache) = EmailsOfPath(1)
     /\ \A e \in EmailsOfPath(1) : MapGet(cache, e) = Login(FirstSha(1, e))
     /\ Len(cache) = Cardinality(EmailsOfPath(1))

\* The log [(c3, a@x), (c2, b@x), (c1, a@x)]: c1 is never sent.
C5_Witness ==
  /\ Returned
  /\ Len(configs.paths) = 1
  /\ cache0 = <<>>
  /\ Len(lines[1]) = 4
  /\ \A c \in Commits : resolver[c] \in {"unknown", "ok"}
  /\ apiCalls[1] = 0
  /\ authors[1] = {Login(3), Login(2)}

\* C6: once the call has returned, every handle among the authors of a
\* path is the cache's value for an email of that path's log.
C6_AuthorsAreCached ==
  Returned =>
    \A i \in PathIndex : \A h \in authors[i] :
      \E e \in EmailsOfPath(i) : MapHas(cache, e) /\ MapGet(cache, e) = h

C6_Witness ==
  /\ Returned
  /\ \E i \in PathIndex :
       /\ Cardinality(authors[i]) = 2
       /\ \E e \in EmailsOfPath(i) : MapHas(cache0, e)
       /\ \E e \in EmailsOfPath(i) : Resolved(e)

\* C8: cacheFor with no cache given and a path listed twice: both entries
\* end with the same authors, whichever reaches an email first.
C8_SamePathSameAuthors ==
  ( /\ Returned
    /\ configs.api = "cacheFor"
    /\ configs.cache = <<>> )
  => \A i, k \in PathIndex :
       configs.paths[i] = configs.paths[k] => authors[i] = authors[k]

C8_Witness ==
  /\ Returned
  /\ configs.api = "cacheFor"
  /\ configs.cache = <<>>
  /\ Len(configs.paths) = 2
  /\ configs.paths[1] = configs.paths[2]
  /\ authors[1] /= {}
  /\ \E e \in EmailsOfPath(1) : Failed(e)

\* Requests that were sent and have not settled.
InFlight == {e \in Emails : promiseForEmail[e].state = "pending"}

\* C10 as stated: at every moment the number of requests in flight is at
\* most configs.concurrency, for any number of paths.
C10_Original == Cardinality(InFlight) <= configs.concurrency

\* The running (or last) call repeats the one before it: the same paths,
\* and as configs.cache the Map that call left behind.
Repeats ==
  /\ runs = 2
  /\ configs.paths = prev.paths
  /\ configs.cache = prev.cache

\* C7 as stated: a call that repeats a call sends no request for an email
\* the first call resolved, and returns for every path the authors the
\* first call had for it.
C7_Original ==
  Repeats =>
    /\ \A e \in prev.resolved : CallsFor(e) = 0
    /\ Returned => authors = prev.authors

\* C7: the same, for a repeating call that is getAuthors, the function
\* that takes a cache.
C7_GetAuthorsIdempotent ==
  (Repeats /\ configs.api = "getAuthors") =>
    /\ \A e \in prev.resolved : CallsFor(e) = 0
    /\ Returned => authors = prev.authors

\* test2/ouuan with updated cache: cacheFor, then getAuthors with the
\* cache it returned; an email that failed in the first call is asked for
\* again and fails again.
C7_Witness ==
  /\ Repeats
  /\ Returned
  /\ prev.api = "cacheFor"
  /\ configs.api = "getAuthors"
  /\ prev.resolved /= {}
  /\ authors[1] /= {}
  /\ \E e \in EmailsOfPath(1) : Failed(e) /\ CallsFor(e) = 1

\* C9: what readCache reads from the file that writeCache wrote is the
\* cache that was written: the same entries in the same order, for a cache
\* of any size, none included.
C9_RoundTrip == readBack.read => (~readBack.error /\ readBack.map = cache)

\* Two entries, with a quote, a backslash, a bracket and a comma in them.
C9_Witness ==
  /\ readBack.read
  /\ cache = << << <<"\"">>, <<"\\">> >>, << <<"]", ",">>, <<>> >> >>
  /\ readBack.map = cache

\* The paths whose `git log` has been started and has not ended.
GitRunning == {i \in PathIndex : pstate[i] = "git"}

\* C11 as stated: at every moment of a cacheFor over several paths, the
\* `git log` commands in progress are at most the configured limit.
C11_Original == Cardinality(GitRunning) <= configs.concurrency

\* errorCallback invocations, and console.error messages, for the commits
\* of an email.
ReportsFor(email) == SumOver(errlog, {c \in Commits : EmailOf(c) = email})

MessagesFor(email) == SumOver(stderr, {c \in Commits : EmailOf(c) = email})

\* C12 as stated: with onerror left out, once the call has returned every
\* email whose resolution failed has a message on the standard error stream.
C12_Original ==
  (Returned /\ configs.onerror = "unset") =>
    \A e \in Emails : Failed(e) => MessagesFor(e) >= 1

\* A repo that is not of the form owner/name: no '/' or more than one, no
\* owner or no name, or a character that no slug has.
NotOwnerSlashName(repo) ==
  \/ Cardinality({k \in 1..Len(repo) : repo[k] = "/"}) /= 1
  \/ repo[1] = "/"
  \/ repo[Len(repo)] = "/"
  \/ \E k \in 1..Len(repo) : repo[k] = " "

\* C13: a call with a repo that is not of the form owner/name is rejected
\* before anything is started: no getAuthorsWithSetApiPromiseQueue (no
\* lstat, no `git log`), no request, no cache.set, no errorCallback.
C13_InvalidRepoRejectedFirst ==
  (runs >= 1 /\ NotOwnerSlashName(configs.repo)) =>
    /\ phase = "rejected"
    /\ pstate = <<>>
    /\ \A n \in PathNames : gitLog[n].exists = "unknown" /\ ~gitLog[n].known
    /\ \A c \in Commits : apiCalls[c] = 0 /\ errlog[c] = 0 /\ stderr[c] = 0
    /\ cache = cache0
    /\ apiQueue = <<>>

\* cacheFor over two paths with a repo of three parts.
C13_Witness ==
  /\ runs = 1
  /\ phase = "rejected"
  /\ configs.api = "cacheFor"
  /\ configs.repo = <<"o", "/", "n", "/", "n">>
  /\ Len(configs.paths) = 2
  /\ pstate = <<>>

\* C14: when lstat or `git log` fails for a path, the call's promise is
\* rejected; the path gets no authors and no line of it is worked on, and
\* errorCallback is not invoked for it: every invocation of errorCallback
\* is for a commit of an email whose resolution failed.
C14_HistoryFailurePropagates ==
  /\ \A i \in PathIndex :
       pstate[i] = "failed" =>
         /\ phase = "rejected"
         /\ authors[i] = {}
         /\ lines[i] = <<>>
         /\ wstate[i] = <<>>
  /\ \A c \in Commits : errlog[c] > 0 => Failed(EmailOf(c))
  /\ (\A i \in PathIndex : pstate[i] = "failed")
       => \A c \in Commits : errlog[c] = 0 /\ apiCalls[c] = 0

\* cacheFor over a path whose `git log` fails and one that gets its
\* authors: the call is rejected all the same.
C14_Witness ==
  /\ phase = "rejected"
  /\ configs.api = "cacheFor"
  /\ Len(pstate) = 2
  /\ pstate[1] = "returned" /\ authors[1] /= {}
  /\ pstate[2] = "failed"
  /\ gitLog[configs.paths[2]].exists = "yes"
  /\ gitLog[configs.paths[2]].fails

\* C15: in a call over one path, the sha of a request for an email that is
\* not in the cache given in configs is the sha of the first record of that
\* email in the log, for any concurrency and any order in which requests
\* end; once the call has returned that request has been sent, once.
C15_FirstShaIsSent ==
  Len(pstate) = 1 =>
    \A e \in Emails \ MapKeys(configs.cache) :
      /\ \A c \in Commits :
           (EmailOf(c) = e /\ apiCalls[c] > 0)
             => (e \in EmailsOfPath(1) /\ c = FirstSha(1, e))
      /\ PromiseHas(promiseForEmail, e)
           => (e \in EmailsOfPath(1) /\ promiseForEmail[e].sha = FirstSha(1, e))
      /\ (Returned /\ e \in EmailsOfPath(1)) => apiCalls[FirstSha(1, e)] = 1

\* The log [(c3, a@x), (c1, a@x)] with two workers: both lines are on
\* setApiPromiseQueue before it takes one, and c3 is sent.
C15_Witness ==
  /\ Returned
  /\ Len(pstate) = 1
  /\ configs.concurrency = 2
  /\ lines[1] = StdoutLines(<<3, 1>>)
  /\ "a@x" \notin MapKeys(configs.cache)
  /\ apiCalls[3] = 1
  /\ apiCalls[1] = 0

Delivered == runs >= 1 /\ phase \in {"idle", "rejected"}

\* No getAuthorsWithSetApiPromiseQueue of the call is still at work.
AllPathsOver == \A i \in PathIndex : pstate[i] \in {"returned", "failed"}

\* C17: when every lstat, every `git log` and every request ends, a call
\* that was made delivers its result, and every path of it comes to its
\* end: no worker waits for ever on setApiPromiseQueue or on a promise.
C17_Terminates == (runs = 1) ~> (Delivered /\ AllPathsOver)

\* cacheFor over two paths with one worker each, more lines than workers,
\* and an email of both paths whose request failed.
C17_Witness ==
  /\ Returned
  /\ configs.concurrency = 1
  /\ Len(pstate) = 2
  /\ Len(lines[1]) >= 3
  /\ \E e \in EmailsOfPath(1) \cap EmailsOfPath(2) : Failed(e)

\* C18: once the call has returned, every "sha email" record of a path has
\* the handle of its email among the path's authors, or errorCallback has
\* been invoked for a commit of that email; and a worker that has come
\* back from setApiPromiseQueue.push finds its email in promiseForEmail.
C18_NoRecordDropped ==
  /\ Returned =>
       \A i \in PathIndex : \A j \in Records(i) :
         LET e == lines[i][j][2] IN
           \/ MapHas(cache, e) /\ MapGet(cache, e) \in authors[i]
           \/ ReportsFor(e) >= 1
  /\ \A i \in PathIndex : \A j \in 1..Len(wstate[i]) :
       wstate[i][j] = "awaiting" => PromiseHas(promiseForEmail, lines[i][j][2])

\* A log with an email that has a login, and two records of an email
\* whose response has none: each of the two was reported, with its own sha.
C18_Witness ==
  /\ Returned
  /\ Len(pstate) = 1
  /\ lines[1] = StdoutLines(<<3, 2, 1>>)
  /\ Resolved("b@x")
  /\ Failed("a@x")
  /\ promiseForEmail["a@x"].truthy
  /\ errlog[3] = 1 /\ errlog[1] = 1
  /\ authors[1] = {Login(2)}

\* errorCallback invocations for a commit in a call that has returned and
\* whose callback returned nothing: for a rejected request one, from
\* .catch, with the sha that was sent; for a response without login one by
\* each path's record of the commit.
ReportsIfNothingReturned(c) ==
  LET p == promiseForEmail[EmailOf(c)] IN
  IF p.state /= "settled" \/ p.hasLogin THEN 0
  ELSE IF resolver[p.sha] = "error" THEN (IF c = p.sha THEN 1 ELSE 0)
  ELSE Cardinality({i \in PathIndex : \E j \in Records(i) : lines[i][j][1] = c})

\* C19 as stated: what errorCallback returns changes nothing; a call whose
\* callback returns something has the invocations of errorCallback that
\* the same call has when the callback returns nothing.
C19_Original ==
  Returned => \A c \in Commits : errlog[c] = ReportsIfNothingReturned(c)

\* C20 as stated: once the caller has the result of a call, its value or
\* its rejection, that call sends no request, sets no cache entry and
\* invokes errorCallback no more.
C20_Original ==
  [][ (Delivered /\ runs' = runs) => UNCHANGED <<apiCalls, cache, errlog>> ]_vars

====
